---- MODULE Spec2Model ----
(***************************************************************************)
(* docker-cloud: the start|stop orchestrator (docker-cloud.go) and the GCE *)
(* implementation of the Cloud interface (package dockercloud): address    *)
(* lookup, get-or-create of the root disk, instance insert and delete, the *)
(* operation poller waitForOp and the ssh tunnel.  The compute provider is *)
(* modelled by the resources and the one zone operation the calls act on.  *)
(* One invocation of the binary is a "run"; runs follow each other on the  *)
(* same provider state.                                                    *)
(***************************************************************************)
EXTENDS Naturals, Sequences, FiniteSets

\* ----------------------------------------------------------------- bounds
\* Number of invocations of the binary in one behaviour.
MaxRuns == 3
\* Number of ZoneOperations.Get calls modelled within one waitForOp.
MaxPolls == 4

\* -------------------------------------------------------------- constants
Verbs == {"start", "stop", "other", "none"}

\* Statuses waitForOp names, and one status outside them.
Recognized == {"PENDING", "RUNNING", "DONE"}
Statuses == Recognized \cup {"ABORTED"}

\* The pointer value a failed ...Do() leaves in op.
NilOp == "nil"

\* instance.NetworkInterfaces[0].AccessConfigs[0].NatIP of a running instance
NatIP == "203.0.113.7"
\* The same field of the request CreateInstance builds: it is never set.
RequestNatIP == ""

DiskSelfLink == "disks/docker-root"

Terminal == {"blocked", "exited", "failed", "panic"}
WaitPcs == {"waitForOp", "waitLoopTest", "waitPoll"}

VARIABLES
    \* the provider
    disk,        \* TRUE when the root disk *diskName exists
    instance,    \* "absent" | "running": the instance *instanceName
    opKind,      \* "none" or the call the zone operation belongs to
    opStatus,    \* the zone operation's status at the provider
    \* the process
    run,         \* index of the current invocation
    verb,        \* args[0] ("none": no argument)
    pc,          \* position of the process in the code
    ip,          \* ip of GetOrCreateInstance
    rootDisk,    \* rootDisk of CreateInstance
    op,          \* op of waitForOp: NilOp or the fetched status
    err,         \* err of waitForOp and, after it returned, of its caller
    caller,      \* the function waitForOp returns to
    seen,        \* the statuses waitForOp fetched, in order
    tunnel,      \* the ssh subprocess of openSecureTunnel
    \* bookkeeping
    calls,       \* provider calls and tunnel launches issued in this run
    hist         \* observations about this run and the runs before it

provider == <<disk, instance, opKind, opStatus>>
process == <<run, verb, pc, ip, rootDisk, op, err, caller, seen, tunnel>>
vars == <<disk, instance, opKind, opStatus, run, verb, pc, ip, rootDisk, op,
          err, caller, seen, tunnel, calls, hist>>

NoCalls ==
    [addrGet |-> 0, diskGet |-> 0, diskInsert |-> 0, instInsert |-> 0,
     instDelete |-> 0, opGet |-> 0, tunnel |-> 0]

NoTunnel == [spawned |-> FALSE, host |-> "", alive |-> FALSE]

\* What a run remembers: the provider state it started from, what its
\* lookups returned, and totals over the runs so far.
NewHist(d, i, okRuns, total, starts, prevVerb, prevPc) ==
    [disk0 |-> d, inst0 |-> i,
     error |-> "none",          \* the first error a call of main's returned
     callsAtError |-> NoCalls,  \* the calls issued when that error came back
     tunnelLookup |-> "none",   \* err of openSecureTunnel's address lookup
     prevDiskOnly |-> prevVerb = "start" /\ prevPc = "failed"
                      /\ hist.diskCreated /\ ~hist.created,
                                \* the run before created the disk, not the instance
     looked |-> FALSE,          \* GetOrCreateInstance has looked the address up
     diskFound |-> FALSE,       \* Disks.Get succeeded in this run
     diskCreated |-> FALSE,     \* the disk insert's wait returned nil
     created |-> FALSE,         \* CreateInstance returned nil
     insertWhileExists |-> FALSE, \* Instances.Insert issued on an existing instance
     deleteOnAbsent |-> FALSE,  \* Instances.Delete issued on an absent instance
     fetchError |-> FALSE,      \* a ZoneOperations.Get of waitForOp failed
     fetches |-> 0,             \* ZoneOperations.Get calls of the current wait
     fetchAfterBad |-> FALSE,   \* a fetch was issued after an unrecognized status
     okRuns |-> okRuns,         \* every earlier run ended blocked or exited
     diskInsertsTotal |-> total,\* Disks.Insert calls over all runs
     starts |-> starts,         \* earlier start runs that reached the block
     prevVerb |-> prevVerb, prevPc |-> prevPc]

\* The switch with the stop case running the start case's code.
EntryMutant(v) ==
    CASE v \in {"start", "stop"} -> "GetOrCreateInstance"
      [] v = "none" -> "usage"
      [] OTHER -> "switchDefault"

\* main, lines 51-58 and 70: where args[0] leads.
Entry(v) ==
    CASE v = "start" -> "GetOrCreateInstance"
      [] v = "stop" -> "DeleteInstance"
      [] v = "none" -> "usage"
      [] OTHER -> "switchDefault"

Init ==
    /\ disk = FALSE
    /\ instance = "absent"
    /\ opKind = "none"
    /\ opStatus = "DONE"
    /\ run = 1
    /\ verb \in Verbs
    /\ pc = Entry(verb)
    /\ ip = ""
    /\ rootDisk = ""
    /\ op = NilOp
    /\ err = "nil"
    /\ caller = "none"
    /\ seen = <<>>
    /\ tunnel = NoTunnel
    /\ calls = NoCalls
    /\ hist = NewHist(FALSE, "absent", TRUE, 0, 0, "none", "none")

\* --------------------------------------------------------------- provider
\* Results of Instances.Get(...).Do() as GetPublicIPAddress turns them into
\* (ip, err): the address of an existing instance, or "" with the error of a
\* lookup that failed (instance absent, or any other failure of the call).
GetPublicIPAddress ==
    (IF instance = "running" THEN {<<NatIP, "nil">>} ELSE {}) \cup {<<"", "err">>}

\* Results of Disks.Get(...).Do(): found only when the disk exists; the call
\* may fail whether it exists or not.
DisksGet == (IF disk THEN {"found"} ELSE {}) \cup {"err"}

\* A mutating call is accepted (an operation is returned) only when the
\* resource is in the state the call needs; it may fail in any state.
Accepts(kind) ==
    CASE kind = "disks.insert" -> ~disk
      [] kind = "instances.insert" -> instance = "absent"
      [] kind = "instances.delete" -> instance = "running"

CallResults(kind) == (IF Accepts(kind) THEN {"ok"} ELSE {}) \cup {"err"}

\* The zone operation moves between PENDING and RUNNING and ends DONE, where
\* its effect on the resource is in place, or in a status the poller does
\* not know.
OpAdvance ==
    /\ opKind # "none"
    /\ opStatus \in {"PENDING", "RUNNING"}
    /\ \E s \in Statuses \ {opStatus} :
        /\ opStatus' = s
        /\ disk' = IF s = "DONE" /\ opKind = "disks.insert" THEN TRUE ELSE disk
        /\ instance' =
            IF s = "DONE" /\ opKind = "instances.insert" THEN "running"
            ELSE IF s = "DONE" /\ opKind = "instances.delete" THEN "absent"
            ELSE instance
    /\ UNCHANGED <<opKind, process, calls, hist>>

\* Results of ZoneOperations.Get(...).Do(): the operation with its current
\* status, or a nil operation with an error.
ZoneOperationsGet == {<<opStatus, "nil">>, <<NilOp, "err">>}

\* ------------------------------------------------------------------- main
\* main, lines 51-56: no argument.
MainUsage ==
    /\ pc = "usage"
    /\ pc' = "failed"
    /\ UNCHANGED <<provider, run, verb, ip, rootDisk, op, err, caller, seen,
                   tunnel, calls, hist>>

\* main, lines 58-76: an argument that is neither start nor stop.
MainOther ==
    /\ pc = "switchDefault"
    /\ pc' = "exited"
    /\ UNCHANGED <<provider, run, verb, ip, rootDisk, op, err, caller, seen,
                   tunnel, calls, hist>>

\* ------------------------------------------------------------ waitForOp
\* The call site a finished waitForOp returns to.
Return(who) ==
    CASE who = "getOrCreateRootDisk" -> "diskWaited"
      [] who = "CreateInstance" -> "instanceWaited"
      [] who = "DeleteInstance" -> "deleteWaited"

\* An accepted mutating call: the provider starts the operation and the
\* caller passes the handle to waitForOp.
Issue(kind, who) ==
    /\ opKind' = kind
    /\ opStatus' = "PENDING"
    /\ op' = "PENDING"
    /\ err' = "nil"
    /\ caller' = who
    /\ seen' = <<>>
    /\ pc' = "waitForOp"

\* waitForOp, line 256: the first fetch; nothing is tested yet.
WaitForOpFirstFetch ==
    /\ pc = "waitForOp"
    /\ \E r \in ZoneOperationsGet :
        /\ op' = r[1]
        /\ err' = r[2]
        /\ seen' = IF r[1] = NilOp THEN seen ELSE Append(seen, r[1])
        /\ hist' = [hist EXCEPT !.fetches = 1, !.fetchError = @ \/ r[2] = "err"]
    /\ calls' = [calls EXCEPT !.opGet = @ + 1]
    /\ pc' = "waitLoopTest"
    /\ UNCHANGED <<provider, run, verb, ip, rootDisk, caller, tunnel>>

\* The loop condition op.Status != "DONE": TRUE to poll again.
LoopCondMutant(o) == TRUE
LoopCond(o) == o # "DONE"

\* waitForOp, lines 257 and 269-270: the loop condition reads op.Status, which
\* panics on the nil op of a failed fetch; on DONE the function returns err.
WaitForOpLoopTest ==
    /\ pc = "waitLoopTest"
    /\ pc' = IF op = NilOp THEN "panic"
             ELSE IF LoopCond(op) THEN "waitPoll"
             ELSE Return(caller)
    /\ UNCHANGED <<provider, run, verb, ip, rootDisk, op, err, caller, seen,
                   tunnel, calls, hist>>

\* The test of line 264 on a non-nil op: TRUE when the status is a bad one.
BadStatus(o) == o \notin Recognized

\* waitForOp, lines 258-267: sleep, fetch again, log a fetch error, then read
\* op.Status (a panic on a nil op) and return an error on a bad status.
WaitForOpPoll ==
    /\ pc = "waitPoll"
    /\ hist.fetches < MaxPolls
    /\ \E r \in ZoneOperationsGet :
        /\ op' = r[1]
        /\ seen' = IF r[1] = NilOp THEN seen ELSE Append(seen, r[1])
        /\ IF r[1] = NilOp
             THEN /\ pc' = "panic"
                  /\ err' = r[2]
             ELSE IF BadStatus(r[1])
             THEN /\ pc' = Return(caller)
                  /\ err' = "err"
             ELSE /\ pc' = "waitLoopTest"
                  /\ err' = r[2]
        /\ hist' = [hist EXCEPT !.fetches = @ + 1,
                                !.fetchError = @ \/ r[2] = "err",
                                !.fetchAfterBad = @ \/ BadStatus(op)]
    /\ calls' = [calls EXCEPT !.opGet = @ + 1]
    /\ UNCHANGED <<provider, run, verb, ip, rootDisk, caller, tunnel>>

\* ------------------------------------------------------------------ start
\* hist with the error `what`, returned to main after the calls `c`, recorded.
Failed(h, what, c) ==
    IF h.error = "none" THEN [h EXCEPT !.error = what, !.callsAtError = c] ELSE h

\* instanceRunning := len(ip) > 0
InstanceRunningMutant(i) == FALSE
InstanceRunning(i) == i # ""

\* GetOrCreateInstance, lines 38-45, and main, lines 60-63, on the reuse
\* path: look the address up; a non-empty address is returned with err.
GetOrCreateInstance ==
    /\ pc = "GetOrCreateInstance"
    /\ \E r \in GetPublicIPAddress :
        /\ ip' = r[1]
        /\ pc' = IF InstanceRunning(r[1])
                   THEN (IF r[2] = "nil" THEN "OpenSecureTunnel" ELSE "failed")
                   ELSE "getOrCreateRootDisk"
    /\ calls' = [calls EXCEPT !.addrGet = @ + 1]
    /\ hist' = [hist EXCEPT !.looked = TRUE]
    /\ UNCHANGED <<provider, run, verb, rootDisk, op, err, caller, seen, tunnel>>

\* getOrCreateRootDisk, lines 138-142: where a Disks.Get result leads.
AfterDisksGetMutant(r) == "DisksInsert"
AfterDisksGet(r) == IF r = "found" THEN "InstancesInsert" ELSE "DisksInsert"

\* CreateInstance, line 161, and getOrCreateRootDisk, lines 136-142: a found
\* disk is returned at once, any lookup error leads to the insert.
GetOrCreateRootDisk ==
    /\ pc = "getOrCreateRootDisk"
    /\ \E r \in DisksGet :
        /\ rootDisk' = IF r = "found" THEN DiskSelfLink ELSE rootDisk
        /\ hist' = [hist EXCEPT !.diskFound = (r = "found")]
        /\ pc' = AfterDisksGet(r)
    /\ calls' = [calls EXCEPT !.diskGet = @ + 1]
    /\ UNCHANGED <<provider, run, verb, ip, op, err, caller, seen, tunnel>>

\* getOrCreateRootDisk, lines 143-150: the insert call; its error is returned
\* through CreateInstance (162-165) to main's log.Fatalf (61-63).
DisksInsert ==
    /\ pc = "DisksInsert"
    /\ calls' = [calls EXCEPT !.diskInsert = @ + 1]
    /\ \E r \in CallResults("disks.insert") :
        IF r = "ok"
          THEN /\ Issue("disks.insert", "getOrCreateRootDisk")
               /\ hist' = [hist EXCEPT !.diskInsertsTotal = @ + 1]
               /\ UNCHANGED <<disk, instance>>
          ELSE /\ pc' = "failed"
               /\ hist' = Failed([hist EXCEPT !.diskInsertsTotal = @ + 1],
                                 "disks.insert", calls')
               /\ UNCHANGED <<provider, op, err, caller, seen>>
    /\ UNCHANGED <<run, verb, ip, rootDisk, tunnel>>

\* getOrCreateRootDisk, line 151: the test of waitForOp's result.
DiskInsertFailedMutant(e) == FALSE
DiskInsertFailed(e) == e # "nil"

\* getOrCreateRootDisk, lines 150-156, with the error path through
\* CreateInstance (162-165) to main (61-63).
DiskWaited ==
    /\ pc = "diskWaited"
    /\ IF DiskInsertFailed(err)
         THEN /\ pc' = "failed"
              /\ UNCHANGED rootDisk
         ELSE /\ pc' = "InstancesInsert"
              /\ rootDisk' = DiskSelfLink
    /\ hist' = IF err # "nil" THEN Failed(hist, "disk operation", calls)
               ELSE [hist EXCEPT !.diskCreated = TRUE]
    /\ UNCHANGED <<provider, run, verb, ip, op, err, caller, seen, tunnel, calls>>

\* InstancesInsert with a rollback added: a failed insert call deletes the disk.
InstancesInsertMutant ==
    /\ pc = "InstancesInsert"
    /\ calls' = [calls EXCEPT !.instInsert = @ + 1]
    /\ \E r \in CallResults("instances.insert") :
        LET h == [hist EXCEPT !.insertWhileExists = @ \/ instance = "running"] IN
        IF r = "ok"
          THEN /\ Issue("instances.insert", "CreateInstance")
               /\ hist' = h
               /\ UNCHANGED <<disk, instance>>
          ELSE /\ pc' = "failed"
               /\ hist' = Failed(h, "instances.insert", calls')
               /\ disk' = FALSE
               /\ UNCHANGED <<instance, opKind, opStatus, op, err, caller, seen>>
    /\ UNCHANGED <<run, verb, ip, rootDisk, tunnel>>

\* CreateInstance, lines 166-202: the instance insert call.
InstancesInsert ==
    /\ pc = "InstancesInsert"
    /\ calls' = [calls EXCEPT !.instInsert = @ + 1]
    /\ \E r \in CallResults("instances.insert") :
        LET h == [hist EXCEPT !.insertWhileExists = @ \/ instance = "running"] IN
        IF r = "ok"
          THEN /\ Issue("instances.insert", "CreateInstance")
               /\ hist' = h
               /\ UNCHANGED <<disk, instance>>
          ELSE /\ pc' = "failed"
               /\ hist' = Failed(h, "instances.insert", calls')
               /\ UNCHANGED <<provider, op, err, caller, seen>>
    /\ UNCHANGED <<run, verb, ip, rootDisk, tunnel>>

\* CreateInstance, line 203: the test of waitForOp's result.
InstanceInsertFailedMutant(e) == FALSE
InstanceInsertFailed(e) == e # "nil"

\* CreateInstance, lines 202-214: after the wait, the 60 s sleep and the
\* return of the request's NatIP; GetOrCreateInstance (45), main (60-63).
InstanceWaited ==
    /\ pc = "instanceWaited"
    /\ IF InstanceInsertFailed(err)
         THEN /\ pc' = "failed"
              /\ UNCHANGED ip
         ELSE /\ pc' = "OpenSecureTunnel"
              /\ ip' = RequestNatIP
    /\ hist' = IF err # "nil" THEN Failed(hist, "instance operation", calls)
               ELSE [hist EXCEPT !.created = TRUE]
    /\ UNCHANGED <<provider, run, verb, rootDisk, op, err, caller, seen,
                   tunnel, calls>>

\* openSecureTunnel, lines 235-237: the test of the lookup's error.
TunnelLookupFailedMutant(e) == FALSE
TunnelLookupFailed(e) == e # "nil"

\* openSecureTunnel, lines 234 and 241: the host ssh is pointed at is the
\* address just looked up, not the ip main got from GetOrCreateInstance.
TunnelHostMutant(looked, returned) == returned
TunnelHost(looked, returned) == looked

\* openSecureTunnel, lines 247-248: the result of cmd.Run() is dropped and
\* nil is returned whether the subprocess lives or not.
RunErrorMutant(alive) == IF alive THEN "nil" ELSE "err"
RunError(alive) == "nil"

\* main, lines 68-69: after the tunnel, receive on a nil channel.
AfterTunnelMutant == "exited"
AfterTunnel == "blocked"

\* OpenSecureTunnel and openSecureTunnel, lines 229-249, and main, lines
\* 64-69: resolve the address again; on error log.Fatalf; otherwise run ssh,
\* ignore how it ends, and block on the nil channel.
OpenSecureTunnel ==
    /\ pc = "OpenSecureTunnel"
    /\ \E r \in GetPublicIPAddress :
        IF TunnelLookupFailed(r[2])
          THEN /\ pc' = "failed"
               /\ calls' = [calls EXCEPT !.addrGet = @ + 1]
               /\ hist' = Failed([hist EXCEPT !.tunnelLookup = r[2]],
                                 "tunnel", calls')
               /\ UNCHANGED tunnel
          ELSE /\ calls' = [calls EXCEPT !.addrGet = @ + 1, !.tunnel = @ + 1]
               /\ \E alive \in BOOLEAN :
                    /\ tunnel' = [spawned |-> TRUE, host |-> TunnelHost(r[1], ip),
                                  alive |-> alive]
                    /\ pc' = IF RunError(alive) = "nil" THEN AfterTunnel ELSE "failed"
               /\ hist' = [hist EXCEPT !.tunnelLookup = r[2]]
    /\ UNCHANGED <<provider, run, verb, ip, rootDisk, op, err, caller, seen>>

\* ------------------------------------------------------------------- stop
\* main's test of DeleteInstance's error, lines 72-74: TRUE to log.Fatalf.
DeleteFailedMutant(e) == FALSE
DeleteFailed(e) == e # "nil"

\* DeleteInstance with a delete of the backing disk added to it.
DeleteInstanceMutant ==
    /\ pc = "DeleteInstance"
    /\ calls' = [calls EXCEPT !.instDelete = @ + 1]
    /\ \E r \in CallResults("instances.delete") :
        LET h == [hist EXCEPT !.deleteOnAbsent = @ \/ instance = "absent"] IN
        IF r = "ok"
          THEN /\ Issue("instances.delete", "DeleteInstance")
               /\ hist' = h
               /\ disk' = FALSE
               /\ UNCHANGED instance
          ELSE /\ pc' = IF DeleteFailed("err") THEN "failed" ELSE "exited"
               /\ hist' = Failed(h, "instances.delete", calls')
               /\ UNCHANGED <<provider, op, err, caller, seen>>
    /\ UNCHANGED <<run, verb, ip, rootDisk, tunnel>>

\* DeleteInstance, lines 218-224, and main, lines 71-74: the delete call; on
\* its error the function returns it and main ends with log.Fatalf.
DeleteInstance ==
    /\ pc = "DeleteInstance"
    /\ calls' = [calls EXCEPT !.instDelete = @ + 1]
    /\ \E r \in CallResults("instances.delete") :
        LET h == [hist EXCEPT !.deleteOnAbsent = @ \/ instance = "absent"] IN
        IF r = "ok"
          THEN /\ Issue("instances.delete", "DeleteInstance")
               /\ hist' = h
               /\ UNCHANGED <<disk, instance>>
          ELSE /\ pc' = IF DeleteFailed("err") THEN "failed" ELSE "exited"
               /\ hist' = Failed(h, "instances.delete", calls')
               /\ UNCHANGED <<provider, op, err, caller, seen>>
    /\ UNCHANGED <<run, verb, ip, rootDisk, tunnel>>

\* DeleteInstance, lines 224-226, and main, lines 72-75.
DeleteWaited ==
    /\ pc = "deleteWaited"
    /\ pc' = IF DeleteFailed(err) THEN "failed" ELSE "exited"
    /\ hist' = IF err # "nil" THEN Failed(hist, "delete operation", calls) ELSE hist
    /\ UNCHANGED <<provider, run, verb, ip, rootDisk, op, err, caller, seen,
                   tunnel, calls>>

\* ------------------------------------------------------------- invocation
\* The binary is invoked again once the previous process has ended or, on
\* the start path, has been interrupted while blocked, and the provider has
\* settled the operation it was given.
NewRun ==
    /\ pc \in Terminal
    /\ run < MaxRuns
    /\ opStatus \notin {"PENDING", "RUNNING"}
    /\ run' = run + 1
    /\ verb' \in Verbs
    /\ pc' = Entry(verb')
    /\ ip' = ""
    /\ rootDisk' = ""
    /\ op' = NilOp
    /\ err' = "nil"
    /\ caller' = "none"
    /\ seen' = <<>>
    /\ calls' = NoCalls
    /\ hist' = NewHist(disk, instance,
                       hist.okRuns /\ pc \in {"blocked", "exited"},
                       hist.diskInsertsTotal,
                       hist.starts + (IF verb = "start" /\ pc = "blocked" THEN 1 ELSE 0),
                       verb, pc)
    /\ UNCHANGED <<provider, tunnel>>

Next ==
    \/ MainUsage
    \/ MainOther
    \/ GetOrCreateInstance
    \/ GetOrCreateRootDisk
    \/ DisksInsert
    \/ DiskWaited
    \/ InstancesInsert
    \/ InstanceWaited
    \/ OpenSecureTunnel
    \/ DeleteInstance
    \/ DeleteWaited
    \/ WaitForOpFirstFetch
    \/ WaitForOpLoopTest
    \/ WaitForOpPoll
    \/ OpAdvance
    \/ NewRun

Spec == Init /\ [][Next]_vars

\* The process is one goroutine that runs on: a step of waitForOp that can be
\* taken (the fetch, the loop test, the sleep and re-fetch) is taken.
LiveSpec ==
    /\ Spec
    /\ WF_vars(WaitForOpFirstFetch)
    /\ WF_vars(WaitForOpLoopTest)
    /\ WF_vars(WaitForOpPoll)

\* ----------------------------------------------------------------- claims
Last(s) == s[Len(s)]

\* C1: whenever waitForOp observes a status outside {PENDING, RUNNING, DONE},
\* on the first fetch as on a later one, it returns at once and issues no
\* further status fetch for the operation.
C1_NoFetchAfterBadStatus == ~hist.fetchAfterBad

\* C2: a start run whose address lookup returned a non-empty address looks up
\* no disk, issues no disk insert and no instance insert, and goes from the
\* lookup straight to OpenSecureTunnel.
C2_ReuseCreatesNothing ==
    (verb = "start" /\ hist.looked /\ ip # "") =>
        /\ calls.diskGet = 0
        /\ calls.diskInsert = 0
        /\ calls.instInsert = 0
        /\ calls.opGet = 0
        /\ \/ pc = "OpenSecureTunnel" /\ calls.addrGet = 1
           \/ pc \in {"blocked", "failed"} /\ calls.addrGet = 2

C2_Witness ==
    /\ run >= 2
    /\ hist.prevVerb = "start"
    /\ verb = "start"
    /\ ip = NatIP
    /\ pc = "blocked"
    /\ calls.tunnel = 1

\* C3 as stated: a start run on an absent instance that reaches the tunnel
\* has issued exactly one disk insert, one instance insert and one launch.
C3_FreshStartInsertsOneDisk ==
    (verb = "start" /\ hist.inst0 = "absent" /\ pc = "blocked") =>
        /\ calls.diskInsert = 1
        /\ calls.instInsert = 1
        /\ calls.tunnel = 1

\* C3, amended: a start run on an absent instance issues at most one disk
\* insert, one instance insert and one tunnel launch; it reaches
\* OpenSecureTunnel only after the instance insert's operation was seen DONE;
\* and once the tunnel is launched it has issued exactly one instance insert,
\* one launch, and one disk insert when the disk lookup failed, none when the
\* disk was found.
C3_FreshStartCreatesOnce ==
    (verb = "start" /\ hist.inst0 = "absent") =>
        /\ calls.diskInsert <= 1 /\ calls.instInsert <= 1 /\ calls.tunnel <= 1
        /\ pc \in {"OpenSecureTunnel", "blocked"} =>
             /\ hist.created
             /\ calls.instInsert = 1
             /\ caller = "CreateInstance" /\ seen # <<>> /\ Last(seen) = "DONE"
             /\ calls.diskInsert = (IF hist.diskFound THEN 0 ELSE 1)
        /\ calls.tunnel = (IF pc = "blocked" THEN 1 ELSE 0)

C3_Witness ==
    /\ verb = "start"
    /\ hist.inst0 = "absent"
    /\ pc = "blocked"
    /\ hist.diskFound
    /\ calls.diskInsert = 0
    /\ calls.instInsert = 1
    /\ calls.tunnel = 1

\* C4: a status fetch that returns an error does not end the wait: waitForOp
\* goes on to the next fetch.
C4_FetchErrorKeepsPolling == hist.fetchError => pc # "panic"

\* C5 as stated: no instance insert is issued while the instance exists at
\* the provider.
C5_NoInsertOnExistingInstance == ~hist.insertWhileExists

\* C5, amended: an instance insert is issued at most once in a run and only
\* after the run's own address lookup returned an empty address (the
\* instance was observed as absent, by a lookup error or an empty address).
C5_InsertOnlyAfterObservedAbsent ==
    /\ calls.instInsert <= 1
    /\ calls.instInsert = 1 =>
         /\ verb = "start"
         /\ hist.looked
         /\ ip = ""
         /\ calls.addrGet >= 1

C5_Witness ==
    /\ calls.instInsert = 1
    /\ hist.insertWhileExists
    /\ hist.looked
    /\ ip = ""
    /\ pc = "failed"

\* C6: when the fetched statuses are k values of {PENDING, RUNNING} followed
\* by DONE and no fetch fails, waitForOp returns nil after exactly k+1
\* fetches: it does not return before DONE and does not fetch after it.
C6_DoneAfterKPlusOneFetches ==
    LET n == Len(seen) IN
    (~hist.fetchError /\ n > 0 /\ \A i \in 1..(n - 1) : seen[i] \in {"PENDING", "RUNNING"}) =>
        /\ hist.fetches = n
        /\ seen[n] \in {"PENDING", "RUNNING"} => pc \in WaitPcs
        /\ seen[n] = "DONE" =>
             /\ pc # "waitPoll"
             /\ err = "nil"
             /\ pc \notin WaitPcs => pc \in {"diskWaited", "InstancesInsert", "instanceWaited",
                                              "OpenSecureTunnel", "deleteWaited", "exited",
                                              "blocked", "failed"}

C6_Witness ==
    /\ seen = <<"PENDING", "RUNNING", "DONE">>
    /\ hist.fetches = 3
    /\ pc \in {"diskWaited", "instanceWaited", "deleteWaited"}
    /\ err = "nil"

\* C7: in one getOrCreateRootDisk call, a successful lookup returns the found
\* reference with no insert and no wait; a failed lookup is followed by
\* exactly one disk insert; the created disk's reference is returned only
\* after the wait on that insert saw DONE; no second insert is ever issued.
C7_DiskInsertAtMostOnce ==
    verb = "start" =>
        /\ calls.diskGet <= 1
        /\ calls.diskInsert <= 1
        /\ hist.diskFound =>
             /\ calls.diskInsert = 0
             /\ ~hist.diskCreated
             /\ rootDisk = DiskSelfLink
             /\ calls.instInsert = 0 => calls.opGet = 0
        /\ (calls.diskGet = 1 /\ ~hist.diskFound) =>
             /\ calls.diskInsert = (IF pc = "DisksInsert" THEN 0 ELSE 1)
             /\ rootDisk = (IF hist.diskCreated THEN DiskSelfLink ELSE "")
        /\ hist.diskCreated =>
             /\ calls.diskInsert = 1
             /\ disk
             /\ calls.opGet >= 1
        /\ calls.instInsert = 1 => (hist.diskFound \/ hist.diskCreated)

C7_Witness ==
    /\ hist.diskCreated
    /\ calls.diskInsert = 1
    /\ rootDisk = DiskSelfLink
    /\ pc = "InstancesInsert"

\* C8: across a stop run the disks at the provider are unchanged, whether
\* the instance delete succeeds or fails.
C8_StopLeavesDisk == verb = "stop" => disk = hist.disk0

C8_Witness ==
    /\ verb = "stop"
    /\ pc = "exited"
    /\ hist.inst0 = "running"
    /\ instance = "absent"
    /\ disk

\* C9: a stop run that ends well has issued one delete call on an existing
\* instance and polled its operation to DONE; a stop run on an absent
\* instance fails at the delete call, polls nothing, and ends failed.
C9_StopThenStopFails ==
    verb = "stop" =>
        /\ pc = "exited" =>
             /\ hist.inst0 = "running"
             /\ calls.instDelete = 1
             /\ seen # <<>> /\ Last(seen) = "DONE"
             /\ err = "nil"
             /\ instance = "absent"
        /\ hist.inst0 = "absent" =>
             /\ pc \in {"DeleteInstance", "failed"}
             /\ calls.opGet = 0
             /\ calls.instDelete = (IF pc = "failed" THEN 1 ELSE 0)

C9_Witness ==
    /\ verb = "stop"
    /\ hist.prevVerb = "stop"
    /\ hist.prevPc = "exited"
    /\ pc = "failed"
    /\ hist.deleteOnAbsent
    /\ calls.opGet = 0

\* C10: over runs that all end well (start blocked on its tunnel, stop
\* exited), at most one disk insert is issued in total, and a start after the
\* first issues none: when it creates an instance it has found the disk by
\* lookup and attaches that disk.
C10_DiskCreatedOnce ==
    (hist.okRuns /\ pc \in {"blocked", "exited"}) =>
        /\ hist.diskInsertsTotal <= 1
        /\ (verb = "start" /\ hist.starts >= 1) =>
             /\ calls.diskInsert = 0
             /\ calls.instInsert = 1 => (hist.diskFound /\ rootDisk = DiskSelfLink)

C10_Witness ==
    /\ hist.okRuns
    /\ hist.starts = 1
    /\ hist.prevVerb = "stop"
    /\ verb = "start"
    /\ pc = "blocked"
    /\ hist.diskFound
    /\ calls.instInsert = 1
    /\ hist.diskInsertsTotal = 1

\* C11: when the address lookup inside openSecureTunnel fails, the error is
\* returned, no tunnel subprocess is spawned, and the run ends failed
\* without blocking.
C11_LookupErrorSpawnsNoTunnel ==
    hist.tunnelLookup = "err" =>
        /\ pc = "failed"
        /\ calls.tunnel = 0
        /\ hist.error = "tunnel"

C11_Witness ==
    /\ verb = "start"
    /\ ip = NatIP
    /\ hist.tunnelLookup = "err"
    /\ pc = "failed"
    /\ calls.addrGet = 2

\* C12: when the address lookup inside openSecureTunnel succeeds, the call
\* returns nil once ssh was run, dead or alive, and start goes on to block.
C12_SubprocessOutcomeIgnored ==
    hist.tunnelLookup = "nil" =>
        /\ pc = "blocked"
        /\ calls.tunnel = 1
        /\ tunnel.spawned
        /\ hist.error = "none"

C12_Witness ==
    /\ hist.tunnelLookup = "nil"
    /\ calls.tunnel = 1
    /\ ~tunnel.alive
    /\ pc = "blocked"

\* C13: once an insert call, an insert operation, the tunnel opening or the
\* deletion has returned an error, the run is in the failed state and has
\* issued no provider call and launched no tunnel since.
C13_ErrorIsFatal ==
    hist.error # "none" =>
        /\ pc = "failed"
        /\ calls = hist.callsAtError
        /\ hist.error = "disks.insert" => (calls.instInsert = 0 /\ calls.tunnel = 0)
        /\ hist.error \in {"disk operation", "instances.insert", "instance operation"} =>
               calls.tunnel = 0
        /\ verb = "start" => calls.instDelete = 0

C13_Witness ==
    /\ hist.error = "instance operation"
    /\ hist.diskCreated
    /\ disk
    /\ instance = "absent"
    /\ pc = "failed"
    /\ calls.diskInsert = 1 /\ calls.instInsert = 1 /\ calls.tunnel = 0

C15_DiskBeforeInstance ==
    /\ (pc = "InstancesInsert" \/ calls.instInsert >= 1) =>
         /\ rootDisk = DiskSelfLink
         /\ hist.diskFound \/ hist.diskCreated
         /\ hist.diskCreated => (disk /\ calls.diskInsert = 1)
         /\ hist.diskFound => hist.disk0
    /\ hist.error \in {"disks.insert", "disk operation"} =>
         /\ calls.instInsert = 0
         /\ pc = "failed"
         /\ rootDisk = ""

C15_Witness ==
    /\ hist.error = "disk operation"
    /\ calls.diskInsert = 1
    /\ calls.instInsert = 0
    /\ pc = "failed"

\* C16 as stated: the start run after one that created the disk and then
\* failed to create the instance issues no disk insert.
C16_NextStartInsertsNoDisk ==
    (verb = "start" /\ hist.prevDiskOnly) => (disk /\ calls.diskInsert = 0)

\* C16, amended: after a start run that created the disk and then failed to
\* create the instance, the disk is still in place; the next start run issues
\* no disk insert when its disk lookup succeeds, and when that lookup fails
\* its one disk insert call is refused, so no second disk is ever created.
C16_DiskLeftForRetry ==
    (verb = "start" /\ hist.prevDiskOnly) =>
        /\ disk /\ hist.disk0
        /\ ~hist.diskCreated
        /\ hist.diskFound => (calls.diskInsert = 0 /\ rootDisk = DiskSelfLink)
        /\ calls.diskInsert >= 1 =>
             /\ calls.diskInsert = 1
             /\ calls.diskGet = 1 /\ ~hist.diskFound
             /\ pc = "failed" /\ hist.error = "disks.insert"

C16_Witness ==
    /\ verb = "start"
    /\ hist.prevDiskOnly
    /\ hist.diskFound
    /\ calls.diskInsert = 0
    /\ calls.instInsert = 1
    /\ hist.diskInsertsTotal = 1

\* C17 as stated: on a fresh start the tunnel's host is the address
\* CreateInstance returned.
C17_TunnelToReturnedAddress ==
    (verb = "start" /\ hist.created /\ calls.tunnel = 1) => tunnel.host = ip

\* C17, amended: on a fresh start the tunnel's host is the address
\* openSecureTunnel looked up itself after the creation; the address
\* CreateInstance returned is the request's NatIP, which is empty, and it
\* is not used.
C17_TunnelToLookedUpAddress ==
    (verb = "start" /\ hist.created /\ calls.tunnel = 1) =>
        /\ tunnel.host = NatIP
        /\ ip = RequestNatIP
        /\ hist.tunnelLookup = "nil"
        /\ calls.addrGet = 2

C17_Witness ==
    /\ verb = "start"
    /\ hist.created
    /\ pc = "blocked"
    /\ tunnel.host = NatIP
    /\ ip = ""
    /\ ~hist.diskFound

\* C18: waitForOp does not return while every status it fetched is PENDING
\* or RUNNING, and once a fetch after such statuses reports DONE it
\* eventually returns nil.
C18_WaitsUntilDone ==
    LET Waiting ==
            /\ ~hist.fetchError
            /\ seen # <<>>
            /\ \A i \in 1..(Len(seen) - 1) : seen[i] \in {"PENDING", "RUNNING"}
    IN  /\ []((Waiting /\ Last(seen) \in {"PENDING", "RUNNING"}) => pc \in WaitPcs)
        /\ (Waiting /\ pc \in WaitPcs /\ op = "DONE")
             ~> (pc \in {"diskWaited", "instanceWaited", "deleteWaited"} /\ err = "nil")

C18_Witness ==
    /\ Len(seen) = 4
    /\ \A i \in 1..3 : seen[i] \in {"PENDING", "RUNNING"}
    /\ seen[4] = "DONE"
    /\ pc \in {"diskWaited", "instanceWaited", "deleteWaited"}
    /\ err = "nil"

\* C19: once the tunnel is launched the start run is blocked, and a blocked
\* run stays blocked: the process takes no further step, issues no provider
\* call and leaves the tunnel as it is (it ends only by being interrupted
\* from outside, which leaves the tunnel too).
C19_BlocksForever ==
    /\ [](calls.tunnel >= 1 => pc = "blocked")
    /\ [][pc = "blocked" =>
            /\ tunnel' = tunnel
            /\ run' = run => (pc' = "blocked" /\ calls' = calls /\ provider' = provider)]_vars

C19_Witness ==
    /\ pc = "blocked"
    /\ run = MaxRuns
    /\ calls.tunnel = 1
    /\ tunnel.spawned /\ tunnel.alive

\* C20: a start run issues no instance delete, at most one disk insert and
\* at most one instance insert; a stop run issues its one instance delete
\* and nothing else: no insert, no address or disk lookup, no tunnel.
C20_CallsConfinedByVerb ==
    /\ verb = "start" =>
         /\ calls.instDelete = 0
         /\ calls.diskInsert <= 1
         /\ calls.instInsert <= 1
    /\ verb = "stop" =>
         /\ calls.instDelete = (IF pc = "DeleteInstance" THEN 0 ELSE 1)
         /\ calls.diskInsert = 0 /\ calls.instInsert = 0
         /\ calls.addrGet = 0 /\ calls.diskGet = 0
         /\ calls.tunnel = 0
    /\ verb \notin {"start", "stop"} => calls = NoCalls

C20_Witness ==
    /\ verb = "stop"
    /\ pc = "exited"
    /\ calls = [NoCalls EXCEPT !.instDelete = 1, !.opGet = 2]

====
